---- MODULE Spec2Model ----
(***************************************************************************)
(* Reconciliation of a TLS certificate against the certificate store of   *)
(* an APISIX gateway: Upload_bind and the helpers it calls.               *)
(*                                                                         *)
(* The gateway's store is the only shared state.  Every remote call       *)
(* (GET /ssls, POST /ssls, DELETE /ssls/{id}) is one step; the code that   *)
(* runs between two remote calls is local and belongs to the step of the   *)
(* call that precedes it.                                                  *)
(***************************************************************************)
EXTENDS Integers, Sequences, FiniteSets, TLC

(***************************************************************************)
(* Bounds of the model.                                                    *)
(***************************************************************************)
\* objects the store may hold before the first invocation
MaxStore == 2
\* invocations the caller makes one after the other in SpecSeq
MaxCalls == 2

(***************************************************************************)
(* Dynamically typed values (Go's `any`).  A scalar is a string, a number  *)
(* or absent; a list value is a list of scalars, a string or absent.       *)
(***************************************************************************)
Str(s) == [t |-> "str", s |-> s]
Num == [t |-> "num", s |-> "7"]
Absent == [t |-> "absent", s |-> ""]
StrList(l) == [t |-> "list", l |-> [i \in 1..Len(l) |-> Str(l[i])]]
DynList(l) == [t |-> "list", l |-> l]
NoList == [t |-> "absent", l |-> <<>>]
NotAList == [t |-> "str", l |-> <<>>]

\* v.(string): the value and whether the assertion succeeded
AsString(v) == [ok |-> v.t = "str", s |-> IF v.t = "str" THEN v.s ELSE ""]

(***************************************************************************)
(* Errors.  An error value is its outermost message, the argument printed  *)
(* in it, and the operation whose failure it wraps: cause = -1 wraps       *)
(* nothing (a nil error), cause = 0 a failure of local code, cause = k > 0 *)
(* the failure of the k-th remote call of the invocation.                  *)
(***************************************************************************)
NoCause == -1
LocalCause == 0
Err(msg, arg, cause) == [msg |-> msg, arg |-> arg, cause |-> cause]
Nil == Err("", "", NoCause)

(***************************************************************************)
(* GetSHA256: PEM decoding, X.509 parsing, SHA-256 of the DER bytes.       *)
(* Certificate texts are named; the name fixes what each stage yields.     *)
(***************************************************************************)
PemDecode(certStr) ==
    CASE certStr = "pem-certA" -> "derA"
      [] certStr = "pem-certB" -> "derB"
      [] certStr = "pem-junk" -> "junk"
      [] OTHER -> ""

ParseCertificate(der) == der \in {"derA", "derB"}

Sum256Hex(der) ==
    CASE der = "derA" -> "aa11"
      [] der = "derB" -> "bb22"
      [] OTHER -> "0000"

GetSHA256(certStr) ==
    LET block == PemDecode(certStr) IN
    IF block = "" THEN [sha |-> "", err |-> Err("cannot decode PEM", "", LocalCause)]
    ELSE IF ~ParseCertificate(block)
         THEN [sha |-> "", err |-> Err("cannot parse certificate", "", LocalCause)]
         ELSE [sha |-> Sum256Hex(block), err |-> Nil]

NoteOf(sha256) == "allinssl-" \o sha256

(***************************************************************************)
(* compareSliceRelation: 0 no overlap, 1 partial overlap, 2 identical as   *)
(* multisets.                                                              *)
(***************************************************************************)
Elems(s) == {s[i] : i \in 1..Len(s)}

\* cnt[s]++ for every s of a
CountOf(a, names) == [n \in names |-> Cardinality({i \in 1..Len(a) : a[i] = n})]

\* the loop over b counting the matching elements without consuming counts
MatchFromNoConsume(b, i, cnt, overlap) ==
    [cnt |-> cnt, overlap |-> overlap + Cardinality({j \in i..Len(b) : cnt[b[j]] > 0})]

RECURSIVE MatchFrom(_, _, _, _)
\* the loop over b: consume one count per matching element
MatchFrom(b, i, cnt, overlap) ==
    IF i > Len(b) THEN [cnt |-> cnt, overlap |-> overlap]
    ELSE IF cnt[b[i]] > 0
         THEN MatchFrom(b, i + 1, [cnt EXCEPT ![b[i]] = @ - 1], overlap + 1)
         ELSE MatchFrom(b, i + 1, cnt, overlap)

\* compareSliceRelation without the comparison of the lengths
compareSliceRelationNoLen(a, b) ==
    IF Len(a) = 0 \/ Len(b) = 0 THEN 0
    ELSE LET names == Elems(a) \cup Elems(b)
             m == MatchFrom(b, 1, CountOf(a, names), 0)
             exact == \A n \in Elems(a) : m.cnt[n] = 0
         IN IF exact THEN 2 ELSE IF m.overlap > 0 THEN 1 ELSE 0

compareSliceRelation(a, b) ==
    IF Len(a) = 0 \/ Len(b) = 0 THEN 0
    ELSE LET names == Elems(a) \cup Elems(b)
             m == MatchFrom(b, 1, CountOf(a, names), 0)
             exact == Len(a) = Len(b) /\ \A n \in Elems(a) : m.cnt[n] = 0
         IN IF exact THEN 2 ELSE IF m.overlap > 0 THEN 1 ELSE 0

(***************************************************************************)
(* The gateway's certificate store.  An object has the key the gateway     *)
(* assigned to it and the value the listing reports for it: hasValue says  *)
(* whether the listed item carries a "value" object, id is the string id   *)
(* that value holds ("" when it holds none), desc its description, snis    *)
(* its domain list as listed.                                              *)
(***************************************************************************)
KeyName(i) == "k" \o ToString(i)

Certs == {"pem-certA", "pem-certB"}

DomainLists == {<<"a.com">>, <<"a.com", "b.com">>}

StoredDescs == {NoteOf(Sum256Hex("derA")), "other"}

StoredSnis ==
    {StrList(<<"b.com">>), StrList(<<"b.com", "a.com">>),
     DynList(<<Str("a.com"), Num>>), NoList}

Object(key, reportsId, desc, snis) ==
    [key |-> key, hasValue |-> TRUE, id |-> IF reportsId THEN key ELSE "",
     desc |-> desc, snis |-> snis]

NoValueObject(key) ==
    [key |-> key, hasValue |-> FALSE, id |-> "", desc |-> "", snis |-> NoList]

ObjectsAt(key) ==
    {NoValueObject(key)} \cup
    {Object(key, r, d, s) : r \in BOOLEAN, d \in StoredDescs, s \in StoredSnis}

\* every store of n objects with the keys k1 .. kn
StoresOf(n) ==
    {{f[i] : i \in 1..n} :
        f \in {g \in [1..n -> UNION {ObjectsAt(KeyName(i)) : i \in 1..n}] :
                 \A i \in 1..n : g[i].key = KeyName(i)}}

InitStores == UNION {StoresOf(n) : n \in 0..MaxStore}

Keys(st) == {o.key : o \in st}

\* the orders in which a Go map of the objects may be iterated
Orders(st) ==
    {f \in [1..Cardinality(st) -> st] :
        \A i, j \in 1..Cardinality(st) : i # j => f[i] # f[j]}

(***************************************************************************)
(* ApisixAPI: what the gateway answers.  Each answer is the decoded JSON   *)
(* (or a transport failure) and whether the gateway applied the request.   *)
(***************************************************************************)
Item(o) == [isMap |-> TRUE, obj |-> o]
NotAMap == [isMap |-> FALSE, obj |-> NoValueObject("")]

ListAnswers(st) ==
    {[err |-> TRUE, hasList |-> FALSE, items |-> <<>>],
     [err |-> FALSE, hasList |-> FALSE, items |-> <<>>]}
    \cup {[err |-> FALSE, hasList |-> TRUE,
           items |-> [i \in 1..Len(ord) |-> Item(ord[i])]] : ord \in Orders(st)}
    \cup {[err |-> FALSE, hasList |-> TRUE,
           items |-> [i \in 1..Len(ord) |-> Item(ord[i])] \o <<NotAMap>>] :
            ord \in {CHOOSE f \in Orders(st) : TRUE}}

\* a list answer every item of which is an object
GoodList(res) ==
    ~res.err /\ res.hasList /\ \A i \in 1..Len(res.items) : res.items[i].isMap

CreateOk(key) ==
    [err |-> FALSE, hasCode |-> TRUE, code |-> 200, hasData |-> TRUE,
     key |-> Str(key), applied |-> TRUE]

CreateAnswers(key) ==
    {CreateOk(key)} \cup
    {[CreateOk(key) EXCEPT !.err = TRUE, !.applied = a] : a \in BOOLEAN} \cup
    {[CreateOk(key) EXCEPT !.hasCode = FALSE, !.applied = FALSE],
     [CreateOk(key) EXCEPT !.code = 400, !.applied = FALSE],
     [CreateOk(key) EXCEPT !.hasData = FALSE, !.applied = TRUE],
     [CreateOk(key) EXCEPT !.key = Absent, !.applied = TRUE],
     [CreateOk(key) EXCEPT !.key = Str(""), !.applied = TRUE]}

DeleteOk(id) ==
    [err |-> FALSE, deleted |-> Str("1"), hasKey |-> TRUE,
     key |-> <<"apisix", "ssls", id>>, applied |-> TRUE]

DeleteAnswers(st, id) ==
    {[DeleteOk(id) EXCEPT !.err = TRUE, !.applied = FALSE],
     [DeleteOk(id) EXCEPT !.deleted = Absent, !.applied = FALSE]}
    \cup IF id \in Keys(st)
         THEN {DeleteOk(id),
               [DeleteOk(id) EXCEPT !.err = TRUE],
               [DeleteOk(id) EXCEPT !.hasKey = FALSE],
               [DeleteOk(id) EXCEPT !.key = <<"apisix", "ssls", id, "x">>]}
         ELSE {}

\* path.Base of a slash-separated path, given as its segments
PathBase(p) == IF Len(p) = 0 THEN "." ELSE p[Len(p)]

(***************************************************************************)
(* The three client functions, applied to the answer of remote call n.     *)
(***************************************************************************)
RECURSIVE CertsFrom(_, _, _, _)
CertsFrom(items, i, certs, n) ==
    IF i > Len(items) THEN [certs |-> certs, err |-> Nil]
    ELSE IF ~items[i].isMap
         THEN [certs |-> <<>>, err |-> Err("cert item is not a map", "", n)]
         ELSE CertsFrom(items, i + 1, Append(certs, items[i].obj), n)

\* listCertFromApisix taking an answer without a list for an empty list
listCertFromApisixLenient(res, n) ==
    IF res.err THEN [certs |-> <<>>, err |-> Err("failed to call Cloud API", "", n)]
    ELSE IF ~res.hasList THEN [certs |-> <<>>, err |-> Nil]
         ELSE CertsFrom(res.items, 1, <<>>, n)

listCertFromApisix(res, n) ==
    IF res.err THEN [certs |-> <<>>, err |-> Err("failed to call Cloud API", "", n)]
    ELSE IF ~res.hasList
         THEN [certs |-> <<>>, err |-> Err("data not found", "", n)]
         ELSE CertsFrom(res.items, 1, <<>>, n)

\* uploadCertToApisix reading the key without looking at the code
uploadCertToApisixIgnoreCode(res, n) ==
    IF res.err THEN [certKey |-> "", err |-> Err("failed to call Cloud API", "", n)]
    ELSE IF ~res.hasData
         THEN [certKey |-> "", err |-> Err("data not found", "", n)]
    ELSE IF ~AsString(res.key).ok
         THEN [certKey |-> "", err |-> Err("key not found", "", n)]
    ELSE [certKey |-> AsString(res.key).s, err |-> Nil]

uploadCertToApisix(res, n) ==
    IF res.err THEN [certKey |-> "", err |-> Err("failed to call Cloud API", "", n)]
    ELSE IF ~res.hasCode
         THEN [certKey |-> "", err |-> Err("code not found", "", n)]
    ELSE IF res.code # 200
         THEN [certKey |-> "", err |-> Err("cloud API error", "", n)]
    ELSE IF ~res.hasData
         THEN [certKey |-> "", err |-> Err("data not found", "", n)]
    ELSE IF ~AsString(res.key).ok
         THEN [certKey |-> "", err |-> Err("key not found", "", n)]
    ELSE [certKey |-> AsString(res.key).s, err |-> Nil]

DeleteCertFromApisix(certKey, res, n) ==
    IF res.err THEN [ok |-> FALSE, err |-> Err("failed to call Apisix API", "", n)]
    ELSE IF ~AsString(res.deleted).ok
         THEN [ok |-> FALSE, err |-> Err("apisix api error", "", n)]
    ELSE IF ~res.hasKey
         THEN [ok |-> FALSE, err |-> Err("key not found", "", n)]
    ELSE IF PathBase(res.key) # certKey
         THEN [ok |-> FALSE, err |-> Err("deleted key mismatch", certKey, n)]
    ELSE [ok |-> TRUE, err |-> Nil]

\* Wrap handing err on as it is
WrapNothing(msg, arg, err) == err

\* fmt.Errorf(msg + ": %w", err): the new error wraps whatever err wraps
Wrap(msg, arg, err) == Err(msg, arg, err.cause)

(***************************************************************************)
(* Upload_bind, first part: the parameter bundle.                          *)
(***************************************************************************)
ValidCfg(cert, doms) ==
    [isNil |-> FALSE, cert |-> Str(cert), key |-> Str("pem-key"),
     admin_key |-> Str("edd1c9f0"), server_address |-> Str("http://gw:9180"),
     domain |-> StrList(doms)]

NilCfg ==
    [isNil |-> TRUE, cert |-> Absent, key |-> Absent, admin_key |-> Absent,
     server_address |-> Absent, domain |-> NoList]

BaseCfg == ValidCfg("pem-certA", <<"a.com">>)

BadScalars == {Absent, Num, Str("")}

BadCfgs ==
    {NilCfg}
    \cup {[BaseCfg EXCEPT !.cert = v] : v \in BadScalars \cup {Str("garbage"), Str("pem-junk")}}
    \cup {[BaseCfg EXCEPT !.key = v] : v \in BadScalars}
    \cup {[BaseCfg EXCEPT !.admin_key = v] : v \in BadScalars}
    \cup {[BaseCfg EXCEPT !.server_address = v] : v \in BadScalars}
    \cup {[BaseCfg EXCEPT !.domain = v] :
            v \in {NoList, NotAList, DynList(<<>>), DynList(<<Str("a.com"), Num>>)}}

CfgInputs == {ValidCfg(c, d) : c \in Certs, d \in DomainLists} \cup BadCfgs

\* Missing without the test for the empty string
MissingTypeOnly(v) == ~AsString(v).ok

\* lines 29, 33, 37, 41: !ok || s == ""
Missing(v) == ~AsString(v).ok \/ AsString(v).s = ""

NoArgs == [certStr |-> "", keyStr |-> "", note |-> "", domain |-> <<>>]

\* the first element of l that is no string, 0 when all are strings
FirstNonString(l) ==
    IF \A i \in 1..Len(l) : l[i].t = "str" THEN 0
    ELSE CHOOSE i \in 1..Len(l) :
            l[i].t # "str" /\ \A j \in 1..(i - 1) : l[j].t = "str"

\* lines 24-61: the checks in the order of the code, then the fingerprint
ParseCfg(c) ==
    IF c.isNil THEN [err |-> Err("config cannot be nil", "", LocalCause), args |-> NoArgs]
    ELSE IF Missing(c.cert)
         THEN [err |-> Err("cert is required", "", LocalCause), args |-> NoArgs]
    ELSE IF Missing(c.key)
         THEN [err |-> Err("key is required", "", LocalCause), args |-> NoArgs]
    ELSE IF Missing(c.admin_key)
         THEN [err |-> Err("admin_key is required", "", LocalCause), args |-> NoArgs]
    ELSE IF Missing(c.server_address)
         THEN [err |-> Err("server_address is required", "", LocalCause), args |-> NoArgs]
    ELSE IF c.domain.t # "list" \/ Len(c.domain.l) = 0
         THEN [err |-> Err("domain is required", "", LocalCause), args |-> NoArgs]
    ELSE IF FirstNonString(c.domain.l) # 0
         THEN [err |-> Err("element is not a string",
                           ToString(FirstNonString(c.domain.l) - 1), LocalCause),
               args |-> NoArgs]
    ELSE LET h == GetSHA256(c.cert.s) IN
         IF h.err # Nil
         THEN [err |-> Wrap("failed to get SHA256 of cert", "", h.err), args |-> NoArgs]
         ELSE [err |-> Nil,
               args |-> [certStr |-> c.cert.s, keyStr |-> c.key.s,
                         note |-> NoteOf(h.sha),
                         domain |-> [i \in 1..Len(c.domain.l) |-> c.domain.l[i].s]]]

(***************************************************************************)
(* Upload_bind, the scan of the listing (lines 71-126).                    *)
(***************************************************************************)
\* ParseSnis keeping the strings before an element that is no string
ParseSnisKeepPrefix(snisAny) ==
    IF snisAny.t # "list" THEN [valid |-> FALSE, snis |-> <<>>]
    ELSE IF FirstNonString(snisAny.l) # 0
         THEN [valid |-> TRUE,
               snis |-> [i \in 1..(FirstNonString(snisAny.l) - 1) |-> snisAny.l[i].s]]
         ELSE [valid |-> TRUE, snis |-> [i \in 1..Len(snisAny.l) |-> snisAny.l[i].s]]

\* lines 86-100: snis as strings, and whether every element was a string
ParseSnis(snisAny) ==
    IF snisAny.t # "list" THEN [valid |-> FALSE, snis |-> <<>>]
    ELSE IF FirstNonString(snisAny.l) # 0
         THEN [valid |-> FALSE,
               snis |-> [i \in 1..(FirstNonString(snisAny.l) - 1) |-> snisAny.l[i].s]]
         ELSE [valid |-> TRUE, snis |-> [i \in 1..Len(snisAny.l) |-> snisAny.l[i].s]]

\* lines 103-106
RelationOf(cert, domain) ==
    LET ps == ParseSnis(cert.snis) IN
    IF ps.valid THEN compareSliceRelation(ps.snis, domain) ELSE 0

\* ShouldDelete without its second condition
ShouldDeleteSameNoteOnly(id, desc, note, relation) ==
    id # "" /\ (desc = note /\ relation # 2)

\* ShouldDelete with its first condition narrowed to partial overlap
ShouldDeletePartialOnly(id, desc, note, relation) ==
    id # "" /\ ((desc = note /\ relation = 1) \/ (relation = 1 /\ desc # note))

\* ShouldDelete with its second condition widened to any overlap
ShouldDeleteForeignOverlap(id, desc, note, relation) ==
    id # "" /\ ((desc = note /\ relation # 2) \/ (relation >= 1 /\ desc # note))

\* ShouldDelete without the test of the id
ShouldDeleteAnyId(id, desc, note, relation) ==
    (desc = note /\ relation # 2) \/ (relation = 1 /\ desc # note)

\* line 113: the condition under which an id joins deleteCertKeyList
ShouldDelete(id, desc, note, relation) ==
    id # "" /\ ((desc = note /\ relation # 2) \/ (relation = 1 /\ desc # note))

\* IsReuse with any overlap taken for a match
IsReuseAnyOverlap(desc, note, relation) == relation = 1 /\ desc = note

\* line 121: the condition under which certKey is set
IsReuse(desc, note, relation) == relation = 2 /\ desc = note

ScanInit == [deleteCertKeyList |-> <<>>, deleteMap |-> {}, certKey |-> ""]

\* ScanStep appending an id without looking it up in deleteMap
ScanStepNoDedup(acc, cert, domain, note) ==
    IF ~cert.hasValue THEN acc
    ELSE LET relation == RelationOf(cert, domain)
             add == ShouldDelete(cert.id, cert.desc, note, relation)
         IN [deleteCertKeyList |->
                IF add THEN Append(acc.deleteCertKeyList, cert.id)
                ELSE acc.deleteCertKeyList,
             deleteMap |-> IF add THEN acc.deleteMap \cup {cert.id} ELSE acc.deleteMap,
             certKey |-> IF IsReuse(cert.desc, note, relation) THEN cert.id
                         ELSE acc.certKey]

\* ScanStep keeping the first match it finds
ScanStepFirstMatch(acc, cert, domain, note) ==
    IF ~cert.hasValue THEN acc
    ELSE LET relation == RelationOf(cert, domain)
             add == ShouldDelete(cert.id, cert.desc, note, relation)
                    /\ cert.id \notin acc.deleteMap
         IN [deleteCertKeyList |->
                IF add THEN Append(acc.deleteCertKeyList, cert.id)
                ELSE acc.deleteCertKeyList,
             deleteMap |-> IF add THEN acc.deleteMap \cup {cert.id} ELSE acc.deleteMap,
             certKey |-> IF IsReuse(cert.desc, note, relation) /\ acc.certKey = ""
                         THEN cert.id
                         ELSE acc.certKey]

\* one iteration of the loop of lines 74-126
ScanStep(acc, cert, domain, note) ==
    IF ~cert.hasValue THEN acc
    ELSE LET relation == RelationOf(cert, domain)
             add == ShouldDelete(cert.id, cert.desc, note, relation)
                    /\ cert.id \notin acc.deleteMap
         IN [deleteCertKeyList |->
                IF add THEN Append(acc.deleteCertKeyList, cert.id)
                ELSE acc.deleteCertKeyList,
             deleteMap |-> IF add THEN acc.deleteMap \cup {cert.id} ELSE acc.deleteMap,
             certKey |-> IF IsReuse(cert.desc, note, relation) THEN cert.id
                         ELSE acc.certKey]

RECURSIVE ScanFrom(_, _, _, _, _)
ScanFrom(certServer, i, acc, domain, note) ==
    IF i > Len(certServer) THEN acc
    ELSE ScanFrom(certServer, i + 1, ScanStep(acc, certServer[i], domain, note),
                  domain, note)

Scan(certServer, domain, note) == ScanFrom(certServer, 1, ScanInit, domain, note)

\* RollbackKey deleting the candidate again
RollbackKeyCandidate(certKey, delCertKey) == delCertKey

\* line 140: the key the rollback deletes
RollbackKey(certKey, delCertKey) == certKey

\* UploadParams binding the first domain only
UploadParamsFirstDomain(cert, key, note, domain) ==
    [cert |-> cert, key |-> key, desc |-> note, snis |-> <<domain[1]>>]

\* lines 164-169: the body of the POST
UploadParams(cert, key, note, domain) ==
    [cert |-> cert, key |-> key, desc |-> note, snis |-> domain]

(***************************************************************************)
(* State.  Procs are the callers that may run Upload_bind against the      *)
(* same gateway.                                                           *)
(***************************************************************************)
Procs == {1, 2}

VARIABLES
    store,        \* the gateway's certificate objects
    nextKey,      \* number of the next key the gateway assigns
    pc,           \* pc[p]: where invocation p stands
    budget,       \* budget[p]: invocations p may still start
    cfg,          \* cfg[p]: the parameter bundle of p's invocation
    local,        \* local[p]: the local variables of Upload_bind; of certServer,
                  \* which is not read after the scan, the set of its items
    calls,        \* calls[p]: the remote calls p's invocation has issued
    result,       \* result[p]: what p's invocation returned
    storeBefore,  \* storeBefore[p]: the store when p's invocation started
    history,      \* the invocations that returned, in order of return
    probe         \* the arguments and the result of a function called on
                  \* its own, outside an invocation

vars == <<store, nextKey, pc, budget, cfg, local, calls, result, storeBefore, history,
          probe>>

NoLocal ==
    [certStr |-> "", keyStr |-> "", note |-> "", domain |-> <<>>,
     listed |-> {}, deleteCertKeyList |-> <<>>, certKey |-> "",
     idx |-> 0, err |-> Nil]

NoResult == [status |-> "none", message |-> "", err |-> Nil]

Success(message) == [status |-> "success", message |-> message, err |-> Nil]

\* Upload_bind returns (nil, err); main prints it with status "error"
Failure(err) == [status |-> "error", message |-> err.msg, err |-> err]

\* A remote call as issued: the operation, what it was issued for, its
\* arguments (for a Create the id it returned), whether the gateway's answer
\* was the well-formed success answer, and whether the client function
\* returned without an error.
Call(op, role, id, desc, snis, good, ok) ==
    [op |-> op, role |-> role, id |-> id, desc |-> desc, snis |-> snis,
     good |-> good, ok |-> ok]

\* the invocation of p returns res, having issued the remote calls cs
Return(p, c, res, cs, before, after) ==
    /\ pc' = [pc EXCEPT ![p] = "done"]
    /\ result' = [result EXCEPT ![p] = res]
    /\ history' = Append(history,
                         [proc |-> p, cfg |-> c, result |-> res, calls |-> cs,
                          storeBefore |-> before, storeAfter |-> after])

\* what the gateway holds after a POST /ssls with body params
Created(st, key, params) ==
    st \cup {Object(key, TRUE, params.desc, StrList(params.snis))}

\* what the gateway holds after a DELETE /ssls/{id}
Removed(st, id) == {o \in st : o.key # id}

(***************************************************************************)
(* Upload_bind, one action per remote call.                                *)
(***************************************************************************)
\* lines 24-63: a caller invokes Upload_bind with some bundle
Start(p) ==
    /\ pc[p] \in {"idle", "done"}
    /\ budget[p] > 0
    /\ \E c \in CfgInputs :
        LET v == ParseCfg(c) IN
        /\ budget' = [budget EXCEPT ![p] = @ - 1]
        /\ cfg' = [cfg EXCEPT ![p] = c]
        /\ calls' = [calls EXCEPT ![p] = <<>>]
        /\ storeBefore' = [storeBefore EXCEPT ![p] = store]
        /\ IF v.err # Nil
           THEN /\ local' = [local EXCEPT ![p] = NoLocal]
                /\ Return(p, c, Failure(v.err), <<>>, store, store)
           ELSE /\ local' = [local EXCEPT ![p] =
                        [NoLocal EXCEPT !.certStr = v.args.certStr,
                                        !.keyStr = v.args.keyStr,
                                        !.note = v.args.note,
                                        !.domain = v.args.domain]]
                /\ pc' = [pc EXCEPT ![p] = "list"]
                /\ result' = [result EXCEPT ![p] = NoResult]
                /\ UNCHANGED history
    /\ UNCHANGED <<store, nextKey, probe>>

\* lines 66-126 and 153-160: GET /ssls, the scan, and the reuse branch
List(p) ==
    /\ pc[p] = "list"
    /\ \E res \in ListAnswers(store) :
        LET n == Len(calls[p]) + 1
            r == listCertFromApisix(res, n)
            cs == Append(calls[p], Call("List", "", "", "", <<>>, GoodList(res), r.err = Nil))
            sc == Scan(r.certs, local[p].domain, local[p].note)
        IN
        /\ calls' = [calls EXCEPT ![p] = cs]
        /\ IF r.err # Nil
           THEN /\ Return(p, cfg[p], Failure(Wrap("failed to list certs from Cloud", "", r.err)),
                          cs, storeBefore[p], store)
                /\ UNCHANGED local
           ELSE /\ local' = [local EXCEPT ![p].listed = Elems(r.certs),
                                          ![p].deleteCertKeyList = sc.deleteCertKeyList,
                                          ![p].certKey = sc.certKey]
                /\ IF sc.certKey = ""
                   THEN /\ pc' = [pc EXCEPT ![p] = "upload"]
                        /\ UNCHANGED <<result, history>>
                   ELSE Return(p, cfg[p], Success("already bound"), cs, storeBefore[p], store)
    /\ UNCHANGED <<store, nextKey, budget, cfg, storeBefore, probe>>

\* lines 128-133 and 148-152: POST /ssls
Upload(p) ==
    /\ pc[p] = "upload"
    /\ \E res \in CreateAnswers(KeyName(nextKey)) :
        LET n == Len(calls[p]) + 1
            params == UploadParams(local[p].certStr, local[p].keyStr,
                                   local[p].note, local[p].domain)
            r == uploadCertToApisix(res, n)
            ok == r.err = Nil /\ r.certKey # ""
            cs == Append(calls[p],
                         Call("Create", "", r.certKey, params.desc, params.snis,
                              res = CreateOk(KeyName(nextKey)), ok))
            st == IF res.applied THEN Created(store, KeyName(nextKey), params) ELSE store
        IN
        /\ store' = st
        /\ nextKey' = IF res.applied THEN nextKey + 1 ELSE nextKey
        /\ calls' = [calls EXCEPT ![p] = cs]
        /\ IF ~ok
           THEN /\ Return(p, cfg[p], Failure(Wrap("failed to upload to Cloud", "", r.err)),
                          cs, storeBefore[p], st)
                /\ UNCHANGED local
           ELSE /\ local' = [local EXCEPT ![p].certKey = r.certKey, ![p].idx = 1]
                /\ IF Len(local[p].deleteCertKeyList) > 0
                   THEN /\ pc' = [pc EXCEPT ![p] = "delete"]
                        /\ UNCHANGED <<result, history>>
                   ELSE Return(p, cfg[p], Success("bound"), cs, storeBefore[p], st)
    /\ UNCHANGED <<budget, cfg, storeBefore, probe>>

\* lines 135-139 and 146-152: DELETE of the next candidate
Delete(p) ==
    /\ pc[p] = "delete"
    /\ LET delCertKey == local[p].deleteCertKeyList[local[p].idx] IN
       \E res \in DeleteAnswers(store, delCertKey) :
        LET n == Len(calls[p]) + 1
            r == DeleteCertFromApisix(delCertKey, res, n)
            cs == Append(calls[p],
                         Call("Delete", "candidate", delCertKey, "", <<>>,
                              res = DeleteOk(delCertKey), r.err = Nil))
            st == IF res.applied THEN Removed(store, delCertKey) ELSE store
        IN
        /\ store' = st
        /\ calls' = [calls EXCEPT ![p] = cs]
        /\ IF r.err # Nil
           THEN /\ local' = [local EXCEPT ![p].err = r.err]
                /\ pc' = [pc EXCEPT ![p] = "rollback"]
                /\ UNCHANGED <<result, history>>
           ELSE IF local[p].idx < Len(local[p].deleteCertKeyList)
                THEN /\ local' = [local EXCEPT ![p].idx = @ + 1]
                     /\ UNCHANGED <<pc, result, history>>
                ELSE /\ UNCHANGED local
                     /\ Return(p, cfg[p], Success("bound"), cs, storeBefore[p], st)
    /\ UNCHANGED <<nextKey, budget, cfg, storeBefore, probe>>

\* lines 140-144: DELETE of the object just created, then the return.  The
\* err of line 140 is declared in the block of the if of line 137, where it
\* hides the err of line 136: line 144 wraps the err of line 140.
Rollback(p) ==
    /\ pc[p] = "rollback"
    /\ LET delCertKey == local[p].deleteCertKeyList[local[p].idx]
           key == RollbackKey(local[p].certKey, delCertKey)
       IN
       \E res \in DeleteAnswers(store, key) :
        LET n == Len(calls[p]) + 1
            r == DeleteCertFromApisix(key, res, n)
            err == r.err
            cs == Append(calls[p],
                         Call("Delete", "rollback", key, "", <<>>,
                              res = DeleteOk(key), r.err = Nil))
            st == IF res.applied THEN Removed(store, key) ELSE store
        IN
        /\ store' = st
        /\ calls' = [calls EXCEPT ![p] = cs]
        /\ Return(p, cfg[p], Failure(Wrap("failed to delete old cert", delCertKey, err)),
                  cs, storeBefore[p], st)
    /\ UNCHANGED <<nextKey, budget, cfg, local, storeBefore, probe>>

Next == \E p \in Procs : Start(p) \/ List(p) \/ Upload(p) \/ Delete(p) \/ Rollback(p)

(***************************************************************************)
(* Specifications.                                                         *)
(*   Spec:    one invocation against an arbitrary store.                   *)
(*   SpecSeq: invocations one after the other, the store empty at first.   *)
(*   SpecConc: two invocations whose remote calls interleave.              *)
(***************************************************************************)
InitLocal ==
    /\ pc = [p \in Procs |-> "idle"]
    /\ cfg = [p \in Procs |-> NilCfg]
    /\ local = [p \in Procs |-> NoLocal]
    /\ calls = [p \in Procs |-> <<>>]
    /\ result = [p \in Procs |-> NoResult]
    /\ history = <<>>

\* no function is called on its own
NoProbe == [fn |-> "none"]

Init ==
    /\ store \in InitStores
    /\ nextKey = Cardinality(store) + 1
    /\ storeBefore = [p \in Procs |-> store]
    /\ budget = [p \in Procs |-> IF p = 1 THEN 1 ELSE 0]
    /\ InitLocal
    /\ probe = NoProbe

InitSeq ==
    /\ store = {}
    /\ nextKey = 1
    /\ storeBefore = [p \in Procs |-> {}]
    /\ budget = [p \in Procs |-> IF p = 1 THEN MaxCalls ELSE 0]
    /\ InitLocal
    /\ probe = NoProbe

\* two callers, one invocation each, the store empty at first
InitConc ==
    /\ store = {}
    /\ nextKey = 1
    /\ storeBefore = [p \in Procs |-> {}]
    /\ budget = [p \in Procs |-> 1]
    /\ InitLocal
    /\ probe = NoProbe

Spec == Init /\ [][Next]_vars

SpecSeq == InitSeq /\ [][Next]_vars

SpecConc == InitConc /\ [][Next]_vars

(***************************************************************************)
(* compareSliceRelation called on its own, on two slices of names in both  *)
(* orders of the arguments.                                                *)
(***************************************************************************)
MaxLen == 3

Names == {"a.com", "b.com", "c.com"}

Slices == UNION {[1..k -> Names] : k \in 0..MaxLen}

NoInvocation ==
    /\ store = {}
    /\ nextKey = 1
    /\ storeBefore = [p \in Procs |-> {}]
    /\ budget = [p \in Procs |-> 0]
    /\ InitLocal

InitClassify ==
    /\ NoInvocation
    /\ \E a \in Slices, b \in Slices :
          probe = [fn |-> "compareSliceRelation", a |-> a, b |-> b,
                   returned |-> FALSE, ab |-> 0, ba |-> 0]

Classify ==
    /\ probe.fn = "compareSliceRelation" /\ ~probe.returned
    /\ probe' = [probe EXCEPT !.returned = TRUE,
                              !.ab = compareSliceRelation(probe.a, probe.b),
                              !.ba = compareSliceRelation(probe.b, probe.a)]
    /\ UNCHANGED <<store, nextKey, pc, budget, cfg, local, calls, result,
                   storeBefore, history>>

NextClassify == Classify

SpecClassify == InitClassify /\ [][NextClassify]_vars

(***************************************************************************)
(* The scan of lines 71-126 on its own, on a listing as the gateway may    *)
(* return it: entries in any order, an id in more than one entry.          *)
(***************************************************************************)
MaxListing == 2

ListedIds == {"", KeyName(1), KeyName(2)}

ListedAs(id, desc, snis) ==
    [key |-> "", hasValue |-> TRUE, id |-> id, desc |-> desc, snis |-> snis]

ListedItems ==
    {NoValueObject("")} \cup
    {ListedAs(id, d, sn) : id \in ListedIds, d \in StoredDescs, sn \in StoredSnis}

Listings == UNION {[1..k -> ListedItems] : k \in 0..MaxListing}

InitScan ==
    /\ NoInvocation
    /\ \E certServer \in Listings, domain \in DomainLists :
          probe = [fn |-> "scan", certServer |-> certServer, domain |-> domain,
                   note |-> NoteOf(Sum256Hex("derA")),
                   returned |-> FALSE, acc |-> ScanInit]

ScanListing ==
    /\ probe.fn = "scan" /\ ~probe.returned
    /\ probe' = [probe EXCEPT !.returned = TRUE,
                              !.acc = Scan(probe.certServer, probe.domain, probe.note)]
    /\ UNCHANGED <<store, nextKey, pc, budget, cfg, local, calls, result,
                   storeBefore, history>>

NextScan == ScanListing

SpecScan == InitScan /\ [][NextScan]_vars

(***************************************************************************)
(* Vocabulary of the properties, stated without the code's own operators.  *)
(***************************************************************************)
Creates(cs) == {i \in 1..Len(cs) : cs[i].op = "Create"}

Deletes(cs) == {i \in 1..Len(cs) : cs[i].op = "Delete"}

\* every remote call got the gateway's well-formed success answer
GoodRun(cs) == \A i \in 1..Len(cs) : cs[i].good

Finished(p) == pc[p] = "done"

Succeeded(p) == result[p].status = "success" /\ result[p].err = Nil

Failed(p) == result[p].status = "error" /\ result[p].err # Nil

\* the listing of p's invocation was obtained
Listed(p) == Len(calls[p]) >= 1 /\ calls[p][1].op = "List" /\ calls[p][1].good

\* the invocation of p created an object
CreatedBy(p) == \E i \in Creates(calls[p]) : calls[p][i].ok

\* the id the Create of p's invocation returned
CreatedId(p) == calls[p][CHOOSE i \in Creates(calls[p]) : TRUE].id

StringField(v) == v.t = "str" /\ v.s # ""

\* the bundle is one Upload_bind must refuse
BadInput(c) ==
    \/ c.isNil
    \/ ~StringField(c.cert) \/ ~StringField(c.key)
    \/ ~StringField(c.admin_key) \/ ~StringField(c.server_address)
    \/ c.domain.t # "list" \/ c.domain.l = <<>>
    \/ \E i \in 1..Len(c.domain.l) : c.domain.l[i].t # "str"
    \/ PemDecode(c.cert.s) = "" \/ ~ParseCertificate(PemDecode(c.cert.s))

\* "allinssl-" + fingerprint of the bundle's certificate
ExpectedNote(c) == "allinssl-" \o Sum256Hex(PemDecode(c.cert.s))

RequestedDomains(c) == [i \in 1..Len(c.domain.l) |-> c.domain.l[i].s]

Occurrences(l, x) == Cardinality({i \in 1..Len(l) : l[i] = x})

\* the object's snis is a list of strings
WellFormedSnis(o) ==
    o.hasValue /\ o.snis.t = "list" /\ \A i \in 1..Len(o.snis.l) : o.snis.l[i].t = "str"

SnisOf(o) == [i \in 1..Len(o.snis.l) |-> o.snis.l[i].s]

\* snis and doms are the same multiset, and not empty
ExactTo(o, doms) ==
    /\ WellFormedSnis(o) /\ SnisOf(o) # <<>> /\ doms # <<>>
    /\ \A x \in Elems(SnisOf(o)) \cup Elems(doms) :
            Occurrences(SnisOf(o), x) = Occurrences(doms, x)

\* snis and doms share a name without being the same multiset
PartialTo(o, doms) ==
    /\ WellFormedSnis(o) /\ ~ExactTo(o, doms)
    /\ Elems(SnisOf(o)) \cap Elems(doms) # {}

\* desc == note and snis exactly matching the requested domains
Matches(o, c) ==
    o.hasValue /\ o.desc = ExpectedNote(c) /\ ExactTo(o, RequestedDomains(c))

\* (desc == note and relation != Exact) or (relation == Partial and desc != note)
Superseded(o, c) ==
    /\ o.hasValue
    /\ \/ o.desc = ExpectedNote(c) /\ ~ExactTo(o, RequestedDomains(c))
       \/ PartialTo(o, RequestedDomains(c)) /\ o.desc # ExpectedNote(c)

\* the failed Delete of a candidate in p's invocation, 0 when there is none
FailedCandidate(p) ==
    IF \E k \in 1..Len(calls[p]) : calls[p][k].role = "candidate" /\ ~calls[p][k].good
    THEN CHOOSE k \in 1..Len(calls[p]) : calls[p][k].role = "candidate" /\ ~calls[p][k].good
    ELSE 0

(***************************************************************************)
(* Properties.                                                             *)
(***************************************************************************)

\* C1 (SpecSeq).  Idempotence: when two invocations in a row get the same
\* valid bundle, the first of them finds the store empty, and the gateway
\* answers every call of both well, then the store holds exactly one object
\* after the second, the first issued exactly one Create, and the second
\* issued no Create and no Delete.
C1_Idempotent ==
    \A i \in 1..(Len(history) - 1) :
        LET a == history[i]
            b == history[i + 1]
        IN (/\ a.storeBefore = {} /\ a.cfg = b.cfg /\ ~BadInput(a.cfg)
            /\ GoodRun(a.calls) /\ GoodRun(b.calls))
           => /\ Cardinality(b.storeAfter) = 1
              /\ Cardinality(Creates(a.calls)) = 1
              /\ Creates(b.calls) = {} /\ Deletes(b.calls) = {}

C1_Witness ==
    \E i \in 1..(Len(history) - 1) :
        /\ history[i].storeBefore = {} /\ history[i].cfg = history[i + 1].cfg
        /\ ~BadInput(history[i].cfg)
        /\ GoodRun(history[i].calls) /\ GoodRun(history[i + 1].calls)
        /\ history[i].result.status = "success"
        /\ history[i + 1].result.status = "success"
        /\ Len(RequestedDomains(history[i].cfg)) = 2

\* C2.  Reuse leaves the store untouched: an invocation whose listing holds
\* an object with desc == note and snis exactly matching the domains returns
\* success having issued no Create and no Delete, the store as it found it.
C2_ReuseUntouched ==
    \A p \in Procs :
        (Finished(p) /\ Listed(p) /\ \E o \in local[p].listed : Matches(o, cfg[p]))
        => /\ Succeeded(p)
           /\ Creates(calls[p]) = {} /\ Deletes(calls[p]) = {}
           /\ store = storeBefore[p]

\* C3.  Uniqueness: after an invocation that returned success, at most one
\* object of the store has desc == note and snis exactly matching the domains.
C3_AtMostOneMatch ==
    \A p \in Procs :
        (Finished(p) /\ Succeeded(p))
        => Cardinality({o \in store : Matches(o, cfg[p])}) <= 1

\* C4.  An invocation whose listing holds no object with desc == note and
\* snis exactly matching the domains issues exactly one Create, with
\* desc = "allinssl-" + fingerprint and snis the requested domains in the
\* caller's order; when the store was empty and the gateway answered the
\* Create well, the invocation succeeds and the store holds exactly the
\* object created.
C4_CreateWhenNoMatch ==
    \A p \in Procs :
        (Finished(p) /\ Listed(p) /\ ~\E o \in local[p].listed : Matches(o, cfg[p]))
        => /\ Cardinality(Creates(calls[p])) = 1
           /\ \A i \in Creates(calls[p]) :
                /\ calls[p][i].desc = ExpectedNote(cfg[p])
                /\ calls[p][i].snis = RequestedDomains(cfg[p])
           /\ (storeBefore[p] = {} /\ GoodRun(calls[p]))
              => /\ Succeeded(p)
                 /\ store = {Object(CreatedId(p), TRUE, ExpectedNote(cfg[p]),
                                    StrList(RequestedDomains(cfg[p])))}

C4_Witness ==
    \E p \in Procs :
        /\ Finished(p) /\ Listed(p) /\ storeBefore[p] = {} /\ GoodRun(calls[p])
        /\ Succeeded(p) /\ CreatedBy(p)
        /\ Len(RequestedDomains(cfg[p])) = 2

\* C5 as stated.  Deletion set on success: when an invocation created an
\* object and returned success, the pre-existing objects gone from the store
\* are exactly the listed objects with (desc == note and relation != Exact)
\* or (relation == Partial and desc != note).
C5_RemovedAreSuperseded ==
    \A p \in Procs :
        (Finished(p) /\ Succeeded(p) /\ CreatedBy(p))
        => storeBefore[p] \ store = {o \in local[p].listed : Superseded(o, cfg[p])}

\* C5 as amended.  The pre-existing objects gone from the store are exactly
\* the listed objects that carry a non-empty id and have (desc == note and
\* relation != Exact) or (relation == Partial and desc != note); every other
\* pre-existing object is still in the store, unchanged.
C5_RemovedAreSupersededWithId ==
    \A p \in Procs :
        (Finished(p) /\ Succeeded(p) /\ CreatedBy(p))
        => LET gone == {o \in local[p].listed : o.id # "" /\ Superseded(o, cfg[p])}
           IN /\ storeBefore[p] \ store = gone
              /\ \A o \in storeBefore[p] \ gone : o \in store

\* a foreign object that shares one of two names was removed after the upload
C5_Witness ==
    \E p \in Procs :
        /\ Finished(p) /\ Succeeded(p) /\ CreatedBy(p)
        /\ \E o \in storeBefore[p] \ store :
            o.desc # ExpectedNote(cfg[p]) /\ PartialTo(o, RequestedDomains(cfg[p]))
        /\ \E o \in storeBefore[p] \cap store : o.id = "" /\ Superseded(o, cfg[p])

\* C6 as stated.  After an invocation that created an object and returned
\* success, exactly one object of the store has desc == note.
C6_OneObjectWithNote ==
    \A p \in Procs :
        (Finished(p) /\ Succeeded(p) /\ CreatedBy(p))
        => Cardinality({o \in store : o.hasValue /\ o.desc = ExpectedNote(cfg[p])}) = 1

\* C6 as amended.  After an invocation that created an object and returned
\* success, the objects of the store with desc == note are the one created
\* and the pre-existing ones that were listed without an id or with exactly
\* matching snis: every pre-existing object with the note, an id and a
\* non-exact snis list has been deleted.
C6_StaleWithIdDeleted ==
    \A p \in Procs :
        (Finished(p) /\ Succeeded(p) /\ CreatedBy(p))
        => {o \in store : o.hasValue /\ o.desc = ExpectedNote(cfg[p])}
           = {o \in store : o.key = CreatedId(p)}
             \cup {o \in storeBefore[p] :
                     /\ o.hasValue /\ o.desc = ExpectedNote(cfg[p])
                     /\ (o.id = "" \/ ExactTo(o, RequestedDomains(cfg[p])))}

\* a stale object with the note and an id was deleted, and the created one is there
C6_Witness ==
    \E p \in Procs :
        /\ Finished(p) /\ Succeeded(p) /\ CreatedBy(p)
        /\ \E o \in storeBefore[p] \ store :
            o.desc = ExpectedNote(cfg[p]) /\ o.id # ""
        /\ \E o \in store : o.key = CreatedId(p) /\ o.desc = ExpectedNote(cfg[p])

C8_ReturnsDeletionError ==
    \A p \in Procs :
        (Finished(p) /\ FailedCandidate(p) # 0)
        => result[p].err.cause = FailedCandidate(p)

\* C9.  No network activity on bad input: an invocation with a bundle that
\* is nil, lacks a non-empty string cert, key, admin_key or server_address,
\* lacks a non-empty domain list of strings, or holds a certificate that
\* cannot be fingerprinted returns an error without a remote call, the
\* store unchanged.
C9_BadInputNoCalls ==
    \A p \in Procs :
        (pc[p] # "idle" /\ BadInput(cfg[p]))
        => /\ Finished(p) /\ Failed(p)
           /\ calls[p] = <<>>
           /\ store = storeBefore[p]

C9_Witness ==
    \E p \in Procs :
        /\ Finished(p) /\ Failed(p) /\ store # {}
        /\ ~cfg[p].isNil /\ cfg[p].key = Str("")

\* C10.  When the List call fails (transport failure, no list container, or
\* an item that is no object), the invocation returns an error having issued
\* no Create and no Delete, the store unchanged.
C10_ListFailureStops ==
    \A p \in Procs :
        (Len(calls[p]) >= 1 /\ calls[p][1].op = "List" /\ ~calls[p][1].good)
        => /\ Finished(p) /\ Failed(p)
           /\ Len(calls[p]) = 1
           /\ store = storeBefore[p]

C10_Witness ==
    \E p \in Procs :
        /\ Finished(p) /\ Failed(p) /\ store # {}
        /\ Len(calls[p]) = 1 /\ ~calls[p][1].good
        /\ result[p].err.cause = 1

\* C11.  Creation failure aborts before any deletion: when the Create is not
\* answered well (failure, or no non-empty identifier), the invocation
\* returns an error having issued no Delete, every object it found still in
\* the store; and every Delete an invocation issues comes after a Create of
\* the same invocation that returned a non-empty identifier.
C11_CreateFailureNoDelete ==
    \A p \in Procs :
        /\ (\E i \in Creates(calls[p]) : ~calls[p][i].good)
           => /\ Finished(p) /\ Failed(p)
              /\ Deletes(calls[p]) = {}
              /\ storeBefore[p] \subseteq store
        /\ \A j \in Deletes(calls[p]) :
              \E i \in Creates(calls[p]) :
                  i < j /\ calls[p][i].ok /\ calls[p][i].id # ""

C11_Witness ==
    \E p \in Procs :
        /\ Finished(p) /\ Failed(p)
        /\ \E i \in Creates(calls[p]) : ~calls[p][i].good
        /\ local[p].deleteCertKeyList # <<>>
        /\ Deletes(calls[p]) = {}

\* the classification the two slices should get: 0 when one is empty,
\* else 2 when they are the same multiset, else 1 when they share a name,
\* else 0
Reference(a, b) ==
    IF a = <<>> \/ b = <<>> THEN 0
    ELSE IF \A x \in Names : Occurrences(a, x) = Occurrences(b, x) THEN 2
    ELSE IF \E i \in 1..Len(a), j \in 1..Len(b) : a[i] = b[j] THEN 1
    ELSE 0

\* C12 (SpecClassify).  The classifier is symmetric: the two slices get the
\* same classification in either order of the arguments, duplicates in the
\* slices included.
C12_Symmetric ==
    (probe.fn = "compareSliceRelation" /\ probe.returned) => probe.ab = probe.ba

C12_Witness ==
    /\ probe.fn = "compareSliceRelation" /\ probe.returned
    /\ probe.a = <<"a.com", "a.com">> /\ probe.b = <<"a.com", "b.com", "a.com">>
    /\ probe.ab = 1

\* C13 (SpecClassify).  The classifier agrees with the reference: Disjoint
\* (0) when a slice is empty, else Exact (2) exactly when the slices are the
\* same multiset, else Partial (1) exactly when they share a name, else
\* Disjoint; so a non-empty slice is Exact to itself and ["a","a"] against
\* ["a"] is Partial.
C13_MatchesReference ==
    (probe.fn = "compareSliceRelation" /\ probe.returned)
    => /\ probe.ab = Reference(probe.a, probe.b)
       /\ (probe.a = probe.b /\ probe.a # <<>>) => probe.ab = 2
       /\ (probe.a = <<"a.com", "a.com">> /\ probe.b = <<"a.com">>) => probe.ab = 1

C13_Witness ==
    /\ probe.fn = "compareSliceRelation" /\ probe.returned
    /\ probe.a = <<"a.com", "a.com">> /\ probe.b = <<"a.com">>
    /\ probe.ab = 1 /\ probe.ba = 1

Scanned == probe.fn = "scan" /\ probe.returned

\* the positions of the listing holding an object with desc == note and
\* snis exactly matching the requested domains
MatchesAt ==
    {i \in 1..Len(probe.certServer) :
        /\ probe.certServer[i].hasValue
        /\ probe.certServer[i].desc = probe.note
        /\ ExactTo(probe.certServer[i], probe.domain)}

FirstOf(S) == CHOOSE i \in S : \A j \in S : i <= j

LastOf(S) == CHOOSE i \in S : \A j \in S : j <= i

\* C14 (SpecScan), as stated.  First match wins: with several objects of
\* desc == note and exactly matching snis in the listing, certKey at the
\* end of the scan is the id of the first of them in scan order.
C14_FirstMatchWins ==
    (Scanned /\ MatchesAt # {})
    => probe.acc.certKey = probe.certServer[FirstOf(MatchesAt)].id

\* C14 (SpecScan), amended.  Last match wins: certKey at the end of the
\* scan is the id of the last object of desc == note and exactly matching
\* snis in scan order (empty when that object is listed without an id),
\* and empty when there is no such object.
C14_LastMatchWins ==
    Scanned
    => probe.acc.certKey =
          IF MatchesAt = {} THEN "" ELSE probe.certServer[LastOf(MatchesAt)].id

C14_Witness ==
    /\ Scanned /\ MatchesAt = {1, 2}
    /\ probe.certServer[1].id = KeyName(1) /\ probe.certServer[2].id = KeyName(2)
    /\ probe.acc.certKey = KeyName(2)

\* C15.  Entries without an id are tolerated: a listed entry without a
\* usable id never joins the deletion set and stays in the store, no Delete
\* (of a candidate or of the rollback) is issued with an empty id, and an
\* invocation that listed such an entry and had every call answered well
\* returns success.
C15_NoIdTolerated ==
    \A p \in Procs :
        /\ \A i \in 1..Len(local[p].deleteCertKeyList) :
              local[p].deleteCertKeyList[i] # ""
        /\ \A i \in Deletes(calls[p]) : calls[p][i].id # ""
        /\ \A o \in local[p].listed : o.id = "" => o \in store
        /\ (/\ Finished(p) /\ Listed(p) /\ GoodRun(calls[p])
            /\ \E o \in local[p].listed : o.id = "")
           => Succeeded(p)

C15_Witness ==
    \E p \in Procs :
        /\ Finished(p) /\ Succeeded(p)
        /\ \E o \in local[p].listed :
              o.id = "" /\ o.hasValue /\ Superseded(o, cfg[p]) /\ o \in store
        /\ \E i \in Deletes(calls[p]) : calls[p][i].role = "candidate"

\* the listed object meets the deletion condition for the scanned request
SupersededIn(o) ==
    /\ o.hasValue
    /\ \/ o.desc = probe.note /\ ~ExactTo(o, probe.domain)
       \/ PartialTo(o, probe.domain) /\ o.desc # probe.note

\* the ids the scan should collect
DeletionIds ==
    {probe.certServer[j].id :
        j \in {k \in 1..Len(probe.certServer) :
                 SupersededIn(probe.certServer[k]) /\ probe.certServer[k].id # ""}}

\* the positions of the listing whose snis is missing or holds a non-string
MalformedAt ==
    {i \in 1..Len(probe.certServer) :
        probe.certServer[i].hasValue /\ ~WellFormedSnis(probe.certServer[i])}

\* C16 (SpecScan).  Malformed snis count as Disjoint and raise no error: a
\* listed object whose snis is missing or holds a non-string element gets
\* relation 0, is never the reuse candidate, has its id in the deletion set
\* when desc == note and it has an id, and otherwise only when another entry
\* puts that id there; the scan goes on over the remaining objects, so the
\* deletion set and the reuse candidate are those of the whole listing.
C16_MalformedSnisDisjoint ==
    Scanned =>
      \A i \in MalformedAt :
        LET o == probe.certServer[i] IN
        /\ RelationOf(o, probe.domain) = 0
        /\ (o.desc = probe.note /\ o.id # "") => o.id \in Elems(probe.acc.deleteCertKeyList)
        /\ o.id \in Elems(probe.acc.deleteCertKeyList)
           => \/ o.desc = probe.note /\ o.id # ""
              \/ \E j \in 1..Len(probe.certServer) :
                    /\ j # i /\ probe.certServer[j].id = o.id
                    /\ SupersededIn(probe.certServer[j])
        /\ Elems(probe.acc.deleteCertKeyList) = DeletionIds
        /\ probe.acc.certKey \in {""} \cup {probe.certServer[j].id : j \in MatchesAt}
        /\ MatchesAt # {} => probe.acc.certKey = probe.certServer[LastOf(MatchesAt)].id

C16_Witness ==
    /\ Scanned /\ MalformedAt = {1} /\ MatchesAt = {2}
    /\ probe.certServer[1].snis = DynList(<<Str("a.com"), Num>>)
    /\ probe.certServer[1].desc = probe.note
    /\ probe.acc.deleteCertKeyList = <<KeyName(1)>>
    /\ probe.acc.certKey = KeyName(2)

Reorderings(l) ==
    {[i \in 1..Len(l) |-> l[f[i]]] :
        f \in {g \in [1..Len(l) -> 1..Len(l)] :
                 \A i, j \in 1..Len(l) : g[i] = g[j] => i = j}}

\* C18 (SpecScan).  The deletion set is a set: no id occurs twice in the
\* list of candidates the Deletes are issued from, also when several
\* entries of the listing carry the same id; and the ids in it are those of
\* the entries meeting the deletion condition, the same in whatever order
\* the listing is scanned.
C18_DeletionSetIsSet ==
    Scanned =>
      LET l == probe.acc.deleteCertKeyList IN
      /\ \A i, j \in 1..Len(l) : l[i] = l[j] => i = j
      /\ Elems(l) = DeletionIds
      /\ \A other \in Reorderings(probe.certServer) :
            Elems(Scan(other, probe.domain, probe.note).deleteCertKeyList) = Elems(l)

C18_Witness ==
    /\ Scanned /\ Len(probe.certServer) = 2
    /\ probe.certServer[1].id = KeyName(1) /\ probe.certServer[2].id = KeyName(1)
    /\ probe.certServer[1] # probe.certServer[2]
    /\ SupersededIn(probe.certServer[1]) /\ SupersededIn(probe.certServer[2])
    /\ probe.acc.deleteCertKeyList = <<KeyName(1)>>

\* C19 (SpecConc).  Two invocations with the same valid bundle run against
\* one store, empty at first, their remote calls interleaved in any way:
\* once both have returned success, the store holds at most one object with
\* desc == note and snis exactly the requested domains.
C19_AtMostOneUnderInterleaving ==
    (/\ \A p \in Procs : Finished(p) /\ Succeeded(p)
     /\ cfg[1] = cfg[2] /\ ~BadInput(cfg[1]))
    => Cardinality({o \in store : Matches(o, cfg[1])}) <= 1

\* the object belongs to another certificate and its snis is exactly the
\* requested domains, or disjoint from them (no name shared, or no list of
\* names at all)
ForeignUntouchable(o, c) ==
    /\ o.hasValue /\ o.desc # ExpectedNote(c)
    /\ \/ ExactTo(o, RequestedDomains(c))
       \/ ~ExactTo(o, RequestedDomains(c)) /\ ~PartialTo(o, RequestedDomains(c))

\* C20.  A foreign object with identical domains is left alone: a listed
\* object with desc != note whose snis is exactly the requested domains
\* never joins the deletion set, is never the target of a Delete and stays
\* in the store, next to the new object once the invocation has created one
\* and returned success; the same holds for a foreign object whose snis
\* shares no name with the requested domains.
C20_ForeignExactUntouched ==
    \A p \in Procs :
        \A o \in local[p].listed :
            ForeignUntouchable(o, cfg[p])
            => /\ o.key \notin Elems(local[p].deleteCertKeyList)
               /\ \A i \in Deletes(calls[p]) : calls[p][i].id # o.key
               /\ o \in store
               /\ (Finished(p) /\ Succeeded(p) /\ CreatedBy(p))
                  => \E n \in store :
                        /\ n.key = CreatedId(p) /\ n.key # o.key
                        /\ Matches(n, cfg[p])

C20_Witness ==
    \E p \in Procs :
        /\ Finished(p) /\ Succeeded(p) /\ CreatedBy(p)
        /\ \E o \in local[p].listed :
              /\ o.id # "" /\ o.desc # ExpectedNote(cfg[p])
              /\ ExactTo(o, RequestedDomains(cfg[p]))
              /\ o \in store
        /\ \E i \in Deletes(calls[p]) : calls[p][i].role = "candidate"

====
